---- MODULE Spec2Model ----
(***************************************************************************)
(* Posture-monitoring engine of src/combined.py: the capture thread and    *)
(* the shared frame cells, the posture classifier, the Tk event loop with  *)
(* the update_test cadence and its duration accounting, the posture_log    *)
(* table, and the start/stop lifecycle of the camera.                      *)
(*                                                                         *)
(* Time is counted in units of 100 ms (the granularity of the shortest     *)
(* delay in the program, after(100, ...)).  The clock moves when the event *)
(* loop sleeps until its next timer and while analyze_posture runs; the    *)
(* other steps take no measurable time.  Angles are in whole degrees.      *)
(***************************************************************************)
EXTENDS Integers, Sequences, FiniteSets, TLC

\* ---------------------------------------------------------------- bounds
\* last clock value explored (4.6 s: room for three cadence ticks)
MaxTime == 46
\* the longest analyze_posture call, in clock units
MaxAnalyzeTime == 1
\* the most INSERTs of one session that the datastore rejects
MaxDbFailures == 1
\* the longest wait of the idle event loop before the user closes the window
MaxCloseDelay == 1
\* the most generate_report calls of one session
MaxReports == 1
\* the most users with rows in posture_log
MaxRows == 3
\* the most start_camera calls that start a thread
MaxStarts == 2

\* ------------------------------------------------------ program constants
\* self.update_interval = 2000 ms
UpdateInterval == 20
\* test_window.after(100, self.update_test): the first tick's delay
FirstDelay == 1
\* webcam_thread.join(timeout=2.0)
JoinTimeout == 20
\* thresholds of analyze_posture
KHSMin == 75
KHSMax == 105
HSEMin == 165
SEVMin == 165

None == "None"
GoodPosture == "Good Posture"
SlouchDetected == "Slouch Detected"
Users == {"A"}

\* ----------------------------------------------------------------- frames
\* A frame is what the landmark detector will make of it:
\*   det  = "none"  : results.pose_landmarks is empty
\*          "raise" : indexing the landmark list raises
\*          "pose"  : landmarks found; miss names a landmark whose coordinate
\*                    is None ("no" = all four present); khs, hse, sev are the
\*                    values find_angles returns for the three angles
\* NaNAngle stands for the nan np.arccos returns for an argument outside
\* [-1, 1]; every comparison with it is false.
NaNAngle == 0 - 1
NoFrame == [det |-> "absent", miss |-> "no", khs |-> 0, hse |-> 0, sev |-> 0]
NoLandmarksFrame == [det |-> "none", miss |-> "no", khs |-> 0, hse |-> 0, sev |-> 0]
RaisingFrame == [det |-> "raise", miss |-> "no", khs |-> 0, hse |-> 0, sev |-> 0]
PoseFrame(m, a, b, c) == [det |-> "pose", miss |-> m, khs |-> a, hse |-> b, sev |-> c]
Landmarks == {"knee", "hip", "shoulder", "ear"}

KHSValues == {NaNAngle, 0, KHSMin - 1, KHSMin, 90, KHSMax, KHSMax + 1, 180}
HSEValues == {NaNAngle, 0, HSEMin - 1, HSEMin, 180}
SEVValues == {NaNAngle, 0, SEVMin - 1, SEVMin, 180}

\* every frame the classifier is exercised on
AllFrames ==
    {NoLandmarksFrame, RaisingFrame}
    \cup {PoseFrame(m, a, b, c) : m \in Landmarks \cup {"no"}, a \in {90},
                                  b \in {180}, c \in {180, SEVMin - 1}}
    \cup {PoseFrame("no", a, b, c) : a \in KHSValues, b \in HSEValues, c \in SEVValues}

\* the frames the camera delivers in the session model
CameraFrames == {NoLandmarksFrame, PoseFrame("no", 90, HSEMin - 1, 180)}

\* numeric comparisons as Python evaluates them on floats (nan compares false)
Leq(a, b) == a # NaNAngle /\ b # NaNAngle /\ a <= b
Geq(a, b) == Leq(b, a)

\* faulty variant: a failed extraction or a missing landmark counts as slouch
AnalyzePostureNoFailOpen(frame) ==
    IF frame = NoFrame THEN FALSE
    ELSE IF frame.det = "none" THEN FALSE
    ELSE IF frame.det = "raise" THEN TRUE
    ELSE IF frame.miss # "no" THEN TRUE
    ELSE ~(Leq(KHSMin, frame.khs) /\ Leq(frame.khs, KHSMax)
           /\ Geq(frame.hse, HSEMin) /\ Geq(frame.sev, SEVMin))

\* faulty variant: the lower knee-hip-shoulder bound is exclusive
AnalyzePostureStrictBounds(frame) ==
    IF frame = NoFrame THEN FALSE
    ELSE IF frame.det = "none" THEN FALSE
    ELSE IF frame.det = "raise" THEN FALSE
    ELSE IF frame.miss # "no" THEN FALSE
    ELSE ~(Leq(KHSMin + 1, frame.khs) /\ Leq(frame.khs, KHSMax)
           /\ Geq(frame.hse, HSEMin) /\ Geq(frame.sev, SEVMin))

\* faulty variant: the shoulder-ear-virtualPoint angle is not checked
AnalyzePostureAnyAngle(frame) ==
    IF frame = NoFrame THEN FALSE
    ELSE IF frame.det = "none" THEN FALSE
    ELSE IF frame.det = "raise" THEN FALSE
    ELSE IF frame.miss # "no" THEN FALSE
    ELSE ~(Leq(KHSMin, frame.khs) /\ Leq(frame.khs, KHSMax)
           /\ Geq(frame.hse, HSEMin))

\* analyze_posture(frame): TRUE = slouch, FALSE = good posture
AnalyzePosture(frame) ==
    IF frame = NoFrame THEN FALSE
    ELSE IF frame.det = "none" THEN FALSE
    ELSE IF frame.det = "raise" THEN FALSE
    ELSE IF frame.miss # "no" THEN FALSE
    ELSE LET validKHS == Leq(KHSMin, frame.khs) /\ Leq(frame.khs, KHSMax)
             validHSE == Geq(frame.hse, HSEMin)
             validSEV == Geq(frame.sev, SEVMin)
         IN  IF validKHS /\ validHSE /\ validSEV THEN FALSE ELSE TRUE

\* ------------------------------------------------------------------ state
VARIABLES
    clock,                        \* time.time(), in units of 100 ms
    main,                         \* where the main (Tk) thread is
    username,                     \* self.username
    camera_active,                \* global camera_active
    webcam_thread,                \* global webcam_thread: None or "thread"
    cam_pc,                       \* where the capture thread is
    cap_open,                     \* the capture thread holds the device
    frame,                        \* capture thread's local frame
    annotated_frame,              \* capture thread's local annotated_frame
    camera_lock,                  \* holder of camera_lock: "free", "camera", "main"
    global_frame,                 \* global global_frame
    global_frame_with_landmarks,  \* global global_frame_with_landmarks
    current_frame,                \* get_pose_status's local current_frame
    slouch_detected,              \* update_test's local slouch_detected
    last_status,                  \* self.last_status
    last_status_change_time,      \* self.last_status_change_time
    good_posture_time,            \* self.good_posture_time
    slouch_time,                  \* self.slouch_time
    start_time,                   \* self.start_time
    after_queue,                  \* Tk timers: sequence of [cb, due]
    inserts,                      \* calls of insert_into_db, in order, with their outcome
    conn_open,                    \* self.conn is open
    ticks_in_flight,              \* update_test invocations begun and not ended
    samples,                      \* history: [t, status, frame] of every completed tick
    last_published,               \* history: the frame of the latest publish
    join_calls,                   \* history: number of webcam_thread.join calls
    stop_returns,                 \* history: number of stop_camera calls that returned
    close_mark,                   \* history: [n, now] at on_closing's entry, or NoMark
    log_text,                     \* self.log_text: the lines written by log_message
    preview_active,               \* self.preview_active
    photo,                        \* self.photo: the image on the preview canvas
    preview_timer,                \* an update_preview timer is pending
    earlier_data,                 \* posture_log as earlier sessions left it, per user
    report_windows,               \* the report windows opened, in order
    later_threads                 \* the capture threads of later start_camera calls

vars == <<clock, main, username, camera_active, webcam_thread, cam_pc, cap_open,
          frame, annotated_frame, camera_lock, global_frame,
          global_frame_with_landmarks, current_frame, slouch_detected,
          last_status, last_status_change_time, good_posture_time, slouch_time,
          start_time, after_queue, inserts, conn_open, ticks_in_flight, samples,
          last_published, join_calls, stop_returns, close_mark, log_text,
          preview_active, photo, preview_timer, earlier_data, report_windows,
          later_threads>>

camVars == <<camera_active, webcam_thread, cam_pc, cap_open, frame, annotated_frame>>
cellVars == <<camera_lock, global_frame, global_frame_with_landmarks, last_published>>
trackerVars == <<last_status, last_status_change_time, good_posture_time, slouch_time,
                 start_time, samples>>
histVars == <<join_calls, stop_returns, close_mark>>
uiVars == <<preview_active, photo, preview_timer, earlier_data, report_windows>>

NoMark == [n |-> 0 - 1, now |-> 0 - 1]
NoAnnotated == [of |-> NoFrame, overlay |-> FALSE]
\* the image on the canvas when no frame was drawn yet
NoPhoto == [of |-> NoFrame, overlay |-> FALSE, width |-> 0, height |-> 0]

Init ==
    /\ clock = 0
    /\ main = "login"
    /\ username = None
    /\ camera_active = TRUE
    /\ webcam_thread = "thread"
    /\ cam_pc = "open"
    /\ cap_open = FALSE
    /\ frame = NoFrame
    /\ annotated_frame = NoAnnotated
    /\ camera_lock = "free"
    /\ global_frame = NoFrame
    /\ global_frame_with_landmarks = NoAnnotated
    /\ current_frame = NoFrame
    /\ slouch_detected = FALSE
    /\ last_status = None
    /\ last_status_change_time = 0
    /\ good_posture_time = 0
    /\ slouch_time = 0
    /\ start_time = 0
    /\ after_queue = <<>>
    /\ inserts = <<>>
    /\ conn_open = TRUE
    /\ ticks_in_flight = 0
    /\ samples = <<>>
    /\ last_published = NoFrame
    /\ join_calls = 0
    /\ stop_returns = 0
    /\ close_mark = NoMark
    /\ log_text = <<>>
    /\ preview_active = FALSE
    /\ photo = NoPhoto
    /\ preview_timer = FALSE
    /\ earlier_data = <<>>
    /\ report_windows = <<>>
    /\ later_threads = <<>>

\* ------------------------------------------------------- capture thread
\* The capture thread is a daemon thread: it runs until the process has exited.
mainVars == <<main, username, current_frame, slouch_detected, after_queue, inserts,
              conn_open, ticks_in_flight>>

\* cap = cv2.VideoCapture(0); if not cap.isOpened(): camera_active = False; return
CameraOpen ==
    /\ main # "exited"
    /\ cam_pc = "open"
    /\ \/ cap_open' = TRUE /\ cam_pc' = "loop" /\ UNCHANGED camera_active
       \/ cap_open' = FALSE /\ cam_pc' = "done" /\ camera_active' = FALSE
    /\ UNCHANGED <<later_threads, log_text, uiVars, clock, webcam_thread, frame, annotated_frame, cellVars, mainVars,
                   trackerVars, histVars>>

\* while camera_active:
CameraLoop ==
    /\ main # "exited"
    /\ cam_pc = "loop"
    /\ cam_pc' = IF camera_active THEN "read" ELSE "release"
    /\ UNCHANGED <<later_threads, log_text, uiVars, clock, camera_active, webcam_thread, cap_open, frame, annotated_frame,
                   cellVars, mainVars, trackerVars, histVars>>

\* faulty variant: a failed read ends the loop
CameraReadFailStops ==
    /\ main # "exited"
    /\ cam_pc = "read"
    /\ \/ \E f \in CameraFrames : frame' = f /\ cam_pc' = "publish"
       \/ frame' = NoFrame /\ cam_pc' = "release"
    /\ UNCHANGED <<later_threads, log_text, uiVars, clock, camera_active, webcam_thread, cap_open, annotated_frame,
                   cellVars, mainVars, trackerVars, histVars>>

\* ret, frame = cap.read()
CameraRead ==
    /\ main # "exited"
    /\ cam_pc = "read"
    /\ \/ \E f \in CameraFrames : frame' = f /\ cam_pc' = "publish"
       \/ frame' = NoFrame /\ cam_pc' = "backoff"
    /\ UNCHANGED <<later_threads, log_text, uiVars, clock, camera_active, webcam_thread, cap_open, annotated_frame,
                   cellVars, mainVars, trackerVars, histVars>>

\* print("Warning: ..."); time.sleep(0.1)
CameraBackoff ==
    /\ main # "exited"
    /\ cam_pc = "backoff"
    /\ cam_pc' = "loop"
    /\ UNCHANGED <<later_threads, log_text, uiVars, clock, camera_active, webcam_thread, cap_open, frame, annotated_frame,
                   cellVars, mainVars, trackerVars, histVars>>

\* faulty variant: the with block is entered whoever holds the lock
AcquireUnguarded(who) == camera_lock' = who

\* with camera_lock: the block is entered once the lock is free
Acquire(who) == camera_lock = "free" /\ camera_lock' = who

\* faulty variant: a stored frame is kept
PublishFirstWins(cell, f) == IF cell = NoFrame THEN f ELSE cell

\* what publishing frame f stores in global_frame, given the cell's content
Publish(cell, f) == f

\* with camera_lock: global_frame = frame.copy()
CameraPublish ==
    /\ main # "exited"
    /\ cam_pc = "publish"
    /\ Acquire("camera")
    /\ global_frame' = Publish(global_frame, frame)
    /\ last_published' = frame
    /\ cam_pc' = "published"
    /\ UNCHANGED <<later_threads, log_text, uiVars, clock, camera_active, webcam_thread, cap_open, frame, annotated_frame,
                   global_frame_with_landmarks, mainVars, trackerVars, histVars>>

CameraPublishRelease ==
    /\ main # "exited"
    /\ cam_pc = "published"
    /\ camera_lock' = "free"
    /\ cam_pc' = "process"
    /\ UNCHANGED <<later_threads, log_text, uiVars, clock, camera_active, webcam_thread, cap_open, frame, annotated_frame,
                   global_frame, global_frame_with_landmarks, last_published, mainVars,
                   trackerVars, histVars>>

\* results = holistic.process(rgb_frame); annotated_frame = frame.copy();
\* the landmarks are drawn when results.pose_landmarks is not empty
Annotate(f) == [of |-> f, overlay |-> f.det # "none"]

\* The conversion, the detector or the drawing can raise.  Nothing in the
\* thread catches the exception: the thread ends where it stands and
\* cap.release() is not reached; the device is then closed only if and when
\* the interpreter finalises the capture object.
CameraProcess ==
    /\ main # "exited"
    /\ cam_pc = "process"
    /\ \/ /\ annotated_frame' = Annotate(frame)
          /\ cam_pc' = "save"
          /\ UNCHANGED cap_open
       \/ /\ cam_pc' = "crashed"
          /\ cap_open' \in BOOLEAN
          /\ UNCHANGED annotated_frame
    /\ UNCHANGED <<later_threads, log_text, uiVars, clock, camera_active, webcam_thread, frame, cellVars,
                   mainVars, trackerVars, histVars>>

\* with camera_lock: global_frame_with_landmarks = annotated_frame
CameraSave ==
    /\ main # "exited"
    /\ cam_pc = "save"
    /\ Acquire("camera")
    /\ global_frame_with_landmarks' = annotated_frame
    /\ cam_pc' = "saved"
    /\ UNCHANGED <<later_threads, log_text, uiVars, clock, camera_active, webcam_thread, cap_open, frame, annotated_frame,
                   global_frame, last_published, mainVars, trackerVars, histVars>>

CameraSaveRelease ==
    /\ main # "exited"
    /\ cam_pc = "saved"
    /\ camera_lock' = "free"
    /\ cam_pc' = "loop"
    /\ UNCHANGED <<later_threads, log_text, uiVars, clock, camera_active, webcam_thread, cap_open, frame, annotated_frame,
                   global_frame, global_frame_with_landmarks, last_published, mainVars,
                   trackerVars, histVars>>

\* cap.release(); print("Camera released")
CameraRelease ==
    /\ main # "exited"
    /\ cam_pc = "release"
    /\ cap_open' = FALSE
    /\ cam_pc' = "done"
    /\ UNCHANGED <<later_threads, log_text, uiVars, clock, camera_active, webcam_thread, frame, annotated_frame, cellVars,
                   mainVars, trackerVars, histVars>>

CameraThread ==
    \/ CameraOpen \/ CameraLoop \/ CameraRead \/ CameraBackoff \/ CameraPublish
    \/ CameraPublishRelease \/ CameraProcess \/ CameraSave \/ CameraSaveRelease
    \/ CameraRelease

\* ---------------------------------------------------------- main thread
\* log_message: one more line in the log widget
LogMessage(log, msg, arg) == Append(log, [msg |-> msg, arg |-> arg])

\* start_test + create_test_ui: the session's state is initialised and the
\* first update_test and the first update_preview are handed to the event loop
StartTest ==
    /\ main = "login"
    /\ \E u \in Users : username' = u
    /\ last_status' = None
    /\ last_status_change_time' = clock
    /\ good_posture_time' = 0
    /\ slouch_time' = 0
    /\ start_time' = clock
    /\ after_queue' = <<[cb |-> "update_test", due |-> clock + FirstDelay]>>
    /\ preview_timer' = TRUE
    /\ log_text' = LogMessage(log_text, "Posture monitoring started", "")
    /\ main' = "idle"
    /\ UNCHANGED <<later_threads, preview_active, photo, earlier_data, report_windows, clock, camVars, cellVars, current_frame, slouch_detected, inserts,
                   conn_open, ticks_in_flight, samples, histVars>>

\* the sequence q without its i-th element
RemoveAt(q, i) == [j \in 1..(Len(q) - 1) |-> IF j < i THEN q[j] ELSE q[j + 1]]

\* the event loop, idle, runs a due update_test timer
UpdateTestDispatch ==
    /\ main = "idle"
    /\ \E i \in DOMAIN after_queue :
          /\ after_queue[i].cb = "update_test"
          /\ after_queue[i].due <= clock
          /\ after_queue' = RemoveAt(after_queue, i)
    /\ ticks_in_flight' = ticks_in_flight + 1
    /\ main' = "ut_lock"
    /\ UNCHANGED <<later_threads, log_text, uiVars, clock, username, camVars, cellVars, current_frame, slouch_detected,
                   inserts, conn_open, trackerVars, histVars>>

\* what a read of the frame cell hands to the reader (prev = the reader's
\* copy from its previous read)
Latest(cell, prev) == cell

\* get_pose_status: with camera_lock: current_frame = global_frame.copy()
GetPoseStatusLock ==
    /\ main = "ut_lock"
    /\ Acquire("main")
    /\ current_frame' = Latest(global_frame, current_frame)
    /\ main' = "ut_locked"
    /\ UNCHANGED <<later_threads, log_text, uiVars, clock, username, camVars, global_frame, global_frame_with_landmarks,
                   last_published, slouch_detected, after_queue, inserts, conn_open,
                   ticks_in_flight, trackerVars, histVars>>

\* leaving the with block: no frame -> return False, else go on to analyze_posture
GetPoseStatusUnlock ==
    /\ main = "ut_locked"
    /\ camera_lock' = "free"
    /\ IF current_frame = NoFrame
       THEN slouch_detected' = FALSE /\ main' = "ut_account"
       ELSE UNCHANGED slouch_detected /\ main' = "ut_analyze"
    /\ UNCHANGED <<later_threads, log_text, uiVars, clock, username, camVars, global_frame, global_frame_with_landmarks,
                   last_published, current_frame, after_queue, inserts, conn_open,
                   ticks_in_flight, trackerVars, histVars>>

\* faulty variant: the frame cell is read again when the analysis starts
AnalyzedFrameLive == global_frame

\* the frame handed to analyze_posture: the copy made under the lock
AnalyzedFrame == current_frame

\* return analyze_posture(current_frame); the detector takes d clock units.
\* cv2.cvtColor, the construction of Holistic and holistic.process stand
\* outside the try block of analyze_posture: when one of them raises, the
\* exception leaves update_test, Tk reports it, and the rest of the callback
\* (the accounting and the re-arming of the timer) is not run.
GetPoseStatusAnalyze ==
    /\ main = "ut_analyze"
    /\ \E d \in 0..MaxAnalyzeTime : clock' = clock + d
    /\ \/ /\ slouch_detected' = AnalyzePosture(AnalyzedFrame)
          /\ main' = "ut_account"
          /\ UNCHANGED ticks_in_flight
       \/ /\ main' = "idle"
          /\ ticks_in_flight' = ticks_in_flight - 1
          /\ UNCHANGED slouch_detected
    /\ UNCHANGED <<later_threads, log_text, uiVars, username, camVars, cellVars, current_frame, after_queue,
                   inserts, conn_open, trackerVars, histVars>>

\* current_status = "Slouch Detected" if slouch_detected else "Good Posture"
CurrentStatus(slouch) == IF slouch THEN SlouchDetected ELSE GoodPosture

\* time.strftime("%Y-%m-%d %H:%M:%S"): the clock cut to whole seconds
Strftime(t) == t \div 10

\* insert_into_db: the row handed to the datastore; ok = the INSERT and the
\* commit succeeded (otherwise the exception is caught and logged)
InsertIntoDb(timestamp, status, duration, ok) ==
    Append(inserts, [username |-> username, timestamp |-> timestamp,
                     status |-> status, duration |-> duration, ok |-> ok])

\* insert_into_db: the line it logs, "Record inserted: ..." or "DB insert error: ..."
InsertLog(log, status, ok) ==
    IF ok THEN LogMessage(log, "Record inserted", status)
    ELSE LogMessage(log, "DB insert error", "")

\* the rows of posture_log written by this session
PostureLog == SelectSeq(inserts, LAMBDA r : r.ok)

\* the outcomes the datastore can give the next INSERT
DbOutcomes ==
    IF Len(SelectSeq(inserts, LAMBDA r : ~r.ok)) < MaxDbFailures
    THEN {TRUE, FALSE} ELSE {TRUE}

\* faulty variant: the time since the session started
DurationOfSession(now) == now - start_time

\* duration = now - self.last_status_change_time
Duration(now) == now - last_status_change_time

\* faulty variant: the record carries the status that was entered
RecordedStatusNew(cur) == cur

\* the status written with a transition (cur = the newly classified status)
RecordedStatus(cur) == last_status

\* faulty variant: the successor is scheduled twice
RescheduleTwice(q, now) ==
    q \o <<[cb |-> "update_test", due |-> now + UpdateInterval],
           [cb |-> "update_test", due |-> now + UpdateInterval]>>

\* the timers update_test leaves behind: after(self.update_interval, self.update_test)
Reschedule(q, now) == Append(q, [cb |-> "update_test", due |-> now + UpdateInterval])

\* faulty variant: the elapsed time goes to the bucket of the new status
GoodBucketCurrent(cur) == cur = GoodPosture

\* if self.last_status == "Good Posture": the bucket that takes the elapsed
\* time (cur = the newly classified status)
GoodBucket(cur) == last_status = GoodPosture

\* faulty variant: a failed INSERT leaves update_test before last_status is set
StatusLostOnFailure(cur, ok) == IF ok THEN cur ELSE last_status

\* self.last_status = current_status, after insert_into_db has returned
\* (ok = the outcome of its INSERT)
StatusAfterInsert(cur, ok) == cur

\* faulty variant: every tick is treated as a change of status
StatusChangedAlways(cur) == TRUE

\* if current_status != self.last_status:
StatusChanged(cur) == cur # last_status

\* update_test after get_pose_status has returned
UpdateTestAccount ==
    /\ main = "ut_account"
    /\ LET current_status == CurrentStatus(slouch_detected)
           now == clock
           duration == Duration(now)
           changed == StatusChanged(current_status)
           writes == changed /\ last_status # None
       IN  \E ok \in (IF writes THEN DbOutcomes ELSE {TRUE}) :
           /\ IF last_status # None
              THEN IF GoodBucket(current_status)
                   THEN /\ good_posture_time' = good_posture_time + duration
                        /\ UNCHANGED slouch_time
                   ELSE /\ slouch_time' = slouch_time + duration
                        /\ UNCHANGED good_posture_time
              ELSE UNCHANGED <<good_posture_time, slouch_time>>
           /\ IF changed
              THEN /\ IF writes
                      THEN /\ inserts' = InsertIntoDb(Strftime(now),
                                                      RecordedStatus(current_status),
                                                      duration, ok)
                           /\ log_text' = InsertLog(LogMessage(log_text, "Status changed to",
                                                               current_status),
                                                    RecordedStatus(current_status), ok)
                      ELSE /\ UNCHANGED inserts
                           /\ log_text' = LogMessage(log_text, "Status changed to",
                                                     current_status)
                   /\ last_status' = StatusAfterInsert(current_status, ok)
                   /\ last_status_change_time' = now
              ELSE UNCHANGED <<inserts, log_text, last_status, last_status_change_time>>
           /\ samples' = Append(samples, [t |-> now, status |-> current_status,
                                          frame |-> current_frame])
           /\ after_queue' = Reschedule(after_queue, now)
    /\ ticks_in_flight' = ticks_in_flight - 1
    /\ main' = "idle"
    /\ UNCHANGED <<later_threads, uiVars, clock, username, camVars, cellVars, current_frame,
                   slouch_detected, conn_open, start_time, histVars>>

\* faulty variant: the closing record covers the whole session
DurationSinceStart(now) == now - start_time

\* the closing record's duration: now - self.last_status_change_time
ClosingDuration(now) == now - last_status_change_time

\* the due time of the earliest pending timer
RECURSIVE MinDue(_)
MinDue(q) ==
    IF Len(q) = 1 THEN q[1].due
    ELSE LET m == MinDue(Tail(q)) IN IF q[1].due < m THEN q[1].due ELSE m

\* the moments at which the idle event loop can be handed a user event: now,
\* or after a wait that ends before the next timer is due
UserEventTimes ==
    {clock} \cup {t \in (clock + 1)..(clock + MaxCloseDelay) :
                    after_queue # <<>> /\ t < MinDue(after_queue)}

\* on_closing up to the call of stop_camera: the open interval is flushed
OnClosing ==
    /\ main = "idle"
    /\ \E now \in UserEventTimes :
          /\ clock' = now
          /\ IF last_status # None
             THEN \E ok \in DbOutcomes :
                     /\ inserts' = InsertIntoDb(Strftime(now), last_status,
                                                ClosingDuration(now), ok)
                     /\ log_text' = InsertLog(log_text, last_status, ok)
             ELSE UNCHANGED <<inserts, log_text>>
          /\ close_mark' = [n |-> Len(inserts), now |-> now]
    /\ main' = "oc_stop"
    /\ UNCHANGED <<later_threads, uiVars, username, camVars, cellVars, current_frame, slouch_detected,
                   after_queue, conn_open, ticks_in_flight, trackerVars, join_calls,
                   stop_returns>>

\* the login window is closed before a session was started: root.mainloop()
\* returns and the finally clause of __main__ runs
CloseLogin ==
    /\ main = "login"
    /\ main' = "fin_stop"
    /\ UNCHANGED <<later_threads, log_text, uiVars, clock, username, camVars, cellVars, current_frame, slouch_detected,
                   after_queue, inserts, conn_open, ticks_in_flight, trackerVars, histVars>>

\* faulty variant: stop_camera without its camera_active guard
StopCameraUnguarded(at, joining, ret) ==
    /\ main = at
    /\ camera_active' = FALSE
    /\ main' = joining
    /\ join_calls' = join_calls + 1
    /\ UNCHANGED stop_returns
    /\ UNCHANGED <<later_threads, log_text, uiVars, clock, username, webcam_thread, cam_pc, cap_open, frame,
                   annotated_frame, cellVars, current_frame, slouch_detected, after_queue,
                   inserts, conn_open, ticks_in_flight, trackerVars, close_mark>>

\* stop_camera, entered at `at`: if camera_active: camera_active = False and
\* join the thread (at `joining`); otherwise return at once (to `ret`)
StopCamera(at, joining, ret) ==
    /\ main = at
    /\ IF camera_active
       THEN /\ camera_active' = FALSE
            /\ IF webcam_thread # None
               THEN main' = joining /\ join_calls' = join_calls + 1
                    /\ UNCHANGED stop_returns
               ELSE main' = ret /\ stop_returns' = stop_returns + 1
                    /\ UNCHANGED join_calls
       ELSE /\ UNCHANGED camera_active
            /\ main' = ret
            /\ stop_returns' = stop_returns + 1
            /\ UNCHANGED join_calls
    /\ UNCHANGED <<later_threads, log_text, uiVars, clock, username, webcam_thread, cam_pc, cap_open, frame,
                   annotated_frame, cellVars, current_frame, slouch_detected, after_queue,
                   inserts, conn_open, ticks_in_flight, trackerVars, close_mark>>

\* the calls in which the capture thread can block for seconds: opening the
\* device, cap.read(), holistic.process()
BlockingCalls == {"open", "read", "process"}

\* webcam_thread.join(timeout=2.0) returns: the thread has ended, or it is held
\* in a blocking call and the two seconds are over; print("Camera thread
\* stopped") either way
JoinReturns(joining, ret) ==
    /\ main = joining
    /\ \/ cam_pc \in {"done", "crashed"} /\ UNCHANGED clock
       \/ cam_pc \in BlockingCalls /\ clock' = clock + JoinTimeout
    /\ main' = ret
    /\ stop_returns' = stop_returns + 1
    /\ UNCHANGED <<later_threads, log_text, uiVars, username, camVars, cellVars, current_frame, slouch_detected,
                   after_queue, inserts, conn_open, ticks_in_flight, trackerVars,
                   join_calls, close_mark>>

OnClosingStopCamera == StopCamera("oc_stop", "oc_join", "oc_close")
OnClosingJoin == JoinReturns("oc_join", "oc_close")

\* on_closing after stop_camera: self.conn.close(); self.test_window.destroy()
\* (which drops the pending timers); sys.exit(0) unwinds to the finally clause
OnClosingFinish ==
    /\ main = "oc_close"
    /\ conn_open' = FALSE
    /\ after_queue' = <<>>
    /\ preview_timer' = FALSE
    /\ main' = "fin_stop"
    /\ UNCHANGED <<later_threads, log_text, preview_active, photo, earlier_data, report_windows, clock, username, camVars, cellVars, current_frame, slouch_detected,
                   inserts, ticks_in_flight, trackerVars, histVars>>

\* finally: stop_camera()
FinalStopCamera == StopCamera("fin_stop", "fin_join", "exited")
FinalJoin == JoinReturns("fin_join", "exited")

\* mainloop with nothing to do: the event loop sleeps until its next timer is due
Sleep ==
    /\ main = "idle"
    /\ after_queue # <<>>
    /\ clock < MinDue(after_queue)
    /\ MinDue(after_queue) <= MaxTime
    /\ clock' = MinDue(after_queue)
    /\ UNCHANGED <<later_threads, log_text, uiVars, main, username, camVars, cellVars, current_frame, slouch_detected,
                   after_queue, inserts, conn_open, ticks_in_flight, trackerVars, histVars>>

MainThread ==
    \/ StartTest \/ UpdateTestDispatch \/ GetPoseStatusLock \/ GetPoseStatusUnlock
    \/ GetPoseStatusAnalyze \/ UpdateTestAccount \/ OnClosing \/ CloseLogin
    \/ OnClosingStopCamera \/ OnClosingJoin \/ OnClosingFinish \/ FinalStopCamera
    \/ FinalJoin \/ Sleep

\* The session with the preview hidden and no report asked for: update_preview
\* then only re-arms its own timer, a step that changes nothing here.  The
\* preview and the report have their own specifications below.
Next == CameraThread \/ MainThread

Spec == Init /\ [][Next]_vars

\* ------------------------------------------------- classifier in isolation
\* A session whose first tick is due, with the capture thread blocked in
\* cap.read() after it has delivered frame f (or nothing yet): every tick
\* classifies f.  f ranges over every frame of AllFrames.
InitClassify ==
    /\ clock = FirstDelay
    /\ main = "idle"
    /\ username \in Users
    /\ camera_active = TRUE
    /\ webcam_thread = "thread"
    /\ cam_pc = "read"
    /\ cap_open = TRUE
    /\ global_frame \in AllFrames \cup {NoFrame}
    /\ frame = global_frame
    /\ annotated_frame = IF global_frame = NoFrame THEN NoAnnotated ELSE Annotate(global_frame)
    /\ global_frame_with_landmarks = annotated_frame
    /\ last_published = global_frame
    /\ camera_lock = "free"
    /\ current_frame = NoFrame
    /\ slouch_detected = FALSE
    /\ last_status = None
    /\ last_status_change_time = 0
    /\ good_posture_time = 0
    /\ slouch_time = 0
    /\ start_time = 0
    /\ after_queue = <<[cb |-> "update_test", due |-> FirstDelay]>>
    /\ inserts = <<>>
    /\ conn_open = TRUE
    /\ ticks_in_flight = 0
    /\ samples = <<>>
    /\ join_calls = 0
    /\ stop_returns = 0
    /\ close_mark = NoMark
    /\ log_text = LogMessage(<<>>, "Posture monitoring started", "")
    /\ preview_active = FALSE
    /\ photo = NoPhoto
    /\ preview_timer = TRUE
    /\ earlier_data = <<>>
    /\ report_windows = <<>>
    /\ later_threads = <<>>

NextClassify ==
    \/ UpdateTestDispatch \/ GetPoseStatusLock \/ GetPoseStatusUnlock
    \/ GetPoseStatusAnalyze \/ UpdateTestAccount \/ Sleep

SpecClassify == InitClassify /\ [][NextClassify]_vars

\* ------------------------------------------- start_camera and stop_camera
\* start_camera and stop_camera as functions of the module, called in any
\* order by one caller.  The thread of the first start lives in cam_pc,
\* cap_open, frame and annotated_frame; the thread of every later start is a
\* record of later_threads and runs the same camera_thread_function on the
\* same globals.
StartDelay == 10

NewThread == [pc |-> "open", cap_open |-> FALSE, frame |-> NoFrame,
              annotated_frame |-> NoAnnotated]

\* the threads started so far
ThreadsStarted == (IF cam_pc = "unstarted" THEN 0 ELSE 1) + Len(later_threads)

\* where the thread that webcam_thread refers to stands
JoinedPc == IF later_threads = <<>> THEN cam_pc ELSE later_threads[Len(later_threads)].pc

\* start_camera: if not camera_active: camera_active = True; a new Thread is
\* bound to webcam_thread and started; time.sleep(1)
StartCamera ==
    /\ main = "api"
    /\ ~camera_active
    /\ ThreadsStarted < MaxStarts
    /\ camera_active' = TRUE
    /\ webcam_thread' = "thread"
    /\ IF cam_pc = "unstarted"
       THEN cam_pc' = "open" /\ UNCHANGED later_threads
       ELSE later_threads' = Append(later_threads, NewThread) /\ UNCHANGED cam_pc
    /\ clock' = clock + StartDelay
    /\ UNCHANGED <<main, username, cap_open, frame, annotated_frame, cellVars,
                   current_frame, slouch_detected, after_queue, inserts, conn_open,
                   ticks_in_flight, trackerVars, histVars, log_text, uiVars>>

\* stop_camera called while camera_active is set
ApiStopCamera ==
    /\ camera_active
    /\ StopCamera("api", "api_join", "api")

\* webcam_thread.join(timeout=2.0) returns: the thread last started has ended,
\* or it is held in a blocking call and the two seconds are over
ApiJoin ==
    /\ main = "api_join"
    /\ \/ JoinedPc \in {"done", "crashed"} /\ UNCHANGED clock
       \/ JoinedPc \in BlockingCalls /\ clock' = clock + JoinTimeout
    /\ main' = "api"
    /\ stop_returns' = stop_returns + 1
    /\ UNCHANGED <<username, camVars, cellVars, current_frame, slouch_detected,
                   after_queue, inserts, conn_open, ticks_in_flight, trackerVars,
                   join_calls, close_mark, log_text, uiVars, later_threads>>

\* what a step of later thread i leaves alone
LaterUnchanged ==
    UNCHANGED <<clock, webcam_thread, cam_pc, cap_open, frame, annotated_frame,
                mainVars, trackerVars, histVars, log_text, uiVars>>

\* later thread i goes on as record r
LaterBecomes(i, r) == later_threads' = [later_threads EXCEPT ![i] = r]

\* camera_thread_function run by later thread i, step by step as the Camera*
\* actions above
LaterOpen(i) ==
    /\ later_threads[i].pc = "open"
    /\ \/ /\ LaterBecomes(i, [later_threads[i] EXCEPT !.pc = "loop", !.cap_open = TRUE])
          /\ UNCHANGED camera_active
       \/ /\ LaterBecomes(i, [later_threads[i] EXCEPT !.pc = "done"])
          /\ camera_active' = FALSE
    /\ UNCHANGED cellVars
    /\ LaterUnchanged

LaterLoop(i) ==
    /\ later_threads[i].pc = "loop"
    /\ LaterBecomes(i, [later_threads[i] EXCEPT
                           !.pc = IF camera_active THEN "read" ELSE "release"])
    /\ UNCHANGED <<camera_active, cellVars>>
    /\ LaterUnchanged

LaterRead(i) ==
    /\ later_threads[i].pc = "read"
    /\ \/ \E f \in CameraFrames :
             LaterBecomes(i, [later_threads[i] EXCEPT !.pc = "publish", !.frame = f])
       \/ LaterBecomes(i, [later_threads[i] EXCEPT !.pc = "backoff", !.frame = NoFrame])
    /\ UNCHANGED <<camera_active, cellVars>>
    /\ LaterUnchanged

LaterBackoff(i) ==
    /\ later_threads[i].pc = "backoff"
    /\ LaterBecomes(i, [later_threads[i] EXCEPT !.pc = "loop"])
    /\ UNCHANGED <<camera_active, cellVars>>
    /\ LaterUnchanged

LaterPublish(i) ==
    /\ later_threads[i].pc = "publish"
    /\ Acquire("camera")
    /\ global_frame' = Publish(global_frame, later_threads[i].frame)
    /\ last_published' = later_threads[i].frame
    /\ LaterBecomes(i, [later_threads[i] EXCEPT !.pc = "published"])
    /\ UNCHANGED <<camera_active, global_frame_with_landmarks>>
    /\ LaterUnchanged

LaterPublishRelease(i) ==
    /\ later_threads[i].pc = "published"
    /\ camera_lock' = "free"
    /\ LaterBecomes(i, [later_threads[i] EXCEPT !.pc = "process"])
    /\ UNCHANGED <<camera_active, global_frame, global_frame_with_landmarks, last_published>>
    /\ LaterUnchanged

LaterProcess(i) ==
    /\ later_threads[i].pc = "process"
    /\ \/ LaterBecomes(i, [later_threads[i] EXCEPT
                              !.pc = "save",
                              !.annotated_frame = Annotate(later_threads[i].frame)])
       \/ \E open \in BOOLEAN :
             LaterBecomes(i, [later_threads[i] EXCEPT !.pc = "crashed", !.cap_open = open])
    /\ UNCHANGED <<camera_active, cellVars>>
    /\ LaterUnchanged

LaterSave(i) ==
    /\ later_threads[i].pc = "save"
    /\ Acquire("camera")
    /\ global_frame_with_landmarks' = later_threads[i].annotated_frame
    /\ LaterBecomes(i, [later_threads[i] EXCEPT !.pc = "saved"])
    /\ UNCHANGED <<camera_active, global_frame, last_published>>
    /\ LaterUnchanged

LaterSaveRelease(i) ==
    /\ later_threads[i].pc = "saved"
    /\ camera_lock' = "free"
    /\ LaterBecomes(i, [later_threads[i] EXCEPT !.pc = "loop"])
    /\ UNCHANGED <<camera_active, global_frame, global_frame_with_landmarks, last_published>>
    /\ LaterUnchanged

LaterRelease(i) ==
    /\ later_threads[i].pc = "release"
    /\ LaterBecomes(i, [later_threads[i] EXCEPT !.pc = "done", !.cap_open = FALSE])
    /\ UNCHANGED <<camera_active, cellVars>>
    /\ LaterUnchanged

LaterThread ==
    \E i \in DOMAIN later_threads :
        \/ LaterOpen(i) \/ LaterLoop(i) \/ LaterRead(i) \/ LaterBackoff(i)
        \/ LaterPublish(i) \/ LaterPublishRelease(i) \/ LaterProcess(i)
        \/ LaterSave(i) \/ LaterSaveRelease(i) \/ LaterRelease(i)

\* the module as imported: no thread, no caller inside a call
InitCamera ==
    /\ clock = 0
    /\ main = "api"
    /\ username = None
    /\ camera_active = FALSE
    /\ webcam_thread = None
    /\ cam_pc = "unstarted"
    /\ cap_open = FALSE
    /\ frame = NoFrame
    /\ annotated_frame = NoAnnotated
    /\ camera_lock = "free"
    /\ global_frame = NoFrame
    /\ global_frame_with_landmarks = NoAnnotated
    /\ current_frame = NoFrame
    /\ slouch_detected = FALSE
    /\ last_status = None
    /\ last_status_change_time = 0
    /\ good_posture_time = 0
    /\ slouch_time = 0
    /\ start_time = 0
    /\ after_queue = <<>>
    /\ inserts = <<>>
    /\ conn_open = FALSE
    /\ ticks_in_flight = 0
    /\ samples = <<>>
    /\ last_published = NoFrame
    /\ join_calls = 0
    /\ stop_returns = 0
    /\ close_mark = NoMark
    /\ log_text = <<>>
    /\ preview_active = FALSE
    /\ photo = NoPhoto
    /\ preview_timer = FALSE
    /\ earlier_data = <<>>
    /\ report_windows = <<>>
    /\ later_threads = <<>>

NextCamera == StartCamera \/ ApiStopCamera \/ ApiJoin \/ CameraThread \/ LaterThread

SpecCamera == InitCamera /\ [][NextCamera]_vars

\* ---------------------------------------------------------------- preview
\* the canvas size the frame is resized to
PreviewWidth == 320
PreviewHeight == 240

\* cv2.resize, cv2.cvtColor, cv2.imencode, tk.PhotoImage: the image drawn from
\* annotated frame a
Render(a) ==
    [of |-> a.of, overlay |-> a.overlay, width |-> PreviewWidth, height |-> PreviewHeight]

\* toggle_preview, the command of the preview button
TogglePreview ==
    /\ main = "idle"
    /\ preview_active' = ~preview_active
    /\ UNCHANGED <<later_threads, clock, camVars, cellVars, mainVars, trackerVars, histVars, log_text,
                   photo, preview_timer, earlier_data, report_windows>>

\* the event loop, idle, runs the update_preview timer (its period of 100 ms
\* is not resolved: the timer can fire whenever the loop is idle);
\* if self.preview_active and camera_active: ... else straight to the re-arming
UpdatePreviewDispatch ==
    /\ main = "idle"
    /\ preview_timer
    /\ preview_timer' = FALSE
    /\ main' = IF preview_active /\ camera_active THEN "up_lock" ELSE "up_after"
    /\ UNCHANGED <<later_threads, clock, username, camVars, cellVars, current_frame, slouch_detected,
                   after_queue, inserts, conn_open, ticks_in_flight, trackerVars,
                   histVars, log_text, preview_active, photo, earlier_data,
                   report_windows>>

\* with camera_lock: if global_frame_with_landmarks is not None:
UpdatePreviewLock ==
    /\ main = "up_lock"
    /\ Acquire("main")
    /\ main' = IF global_frame_with_landmarks # NoAnnotated THEN "up_render" ELSE "up_unlock"
    /\ UNCHANGED <<later_threads, clock, username, camVars, global_frame, global_frame_with_landmarks,
                   last_published, current_frame, slouch_detected, after_queue, inserts,
                   conn_open, ticks_in_flight, trackerVars, histVars, log_text, uiVars>>

\* inside the with block: resize, colour conversion, PNG encoding, PhotoImage,
\* canvas.create_image
UpdatePreviewRender ==
    /\ main = "up_render"
    /\ photo' = Render(global_frame_with_landmarks)
    /\ main' = "up_unlock"
    /\ UNCHANGED <<later_threads, clock, username, camVars, cellVars, current_frame, slouch_detected,
                   after_queue, inserts, conn_open, ticks_in_flight, trackerVars,
                   histVars, log_text, preview_active, preview_timer, earlier_data,
                   report_windows>>

\* leaving the with block
UpdatePreviewUnlock ==
    /\ main = "up_unlock"
    /\ camera_lock' = "free"
    /\ main' = "up_after"
    /\ UNCHANGED <<later_threads, clock, username, camVars, global_frame, global_frame_with_landmarks,
                   last_published, current_frame, slouch_detected, after_queue, inserts,
                   conn_open, ticks_in_flight, trackerVars, histVars, log_text, uiVars>>

\* self.test_window.after(100, self.update_preview)
UpdatePreviewReschedule ==
    /\ main = "up_after"
    /\ preview_timer' = TRUE
    /\ main' = "idle"
    /\ UNCHANGED <<later_threads, clock, username, camVars, cellVars, current_frame, slouch_detected,
                   after_queue, inserts, conn_open, ticks_in_flight, trackerVars,
                   histVars, log_text, preview_active, photo, earlier_data,
                   report_windows>>

\* A session that has just started: the first tick is due, the preview timer
\* is armed, the capture thread is about to open the device.
InitPreview ==
    /\ clock = FirstDelay
    /\ main = "idle"
    /\ username \in Users
    /\ camera_active = TRUE
    /\ webcam_thread = "thread"
    /\ cam_pc = "open"
    /\ cap_open = FALSE
    /\ frame = NoFrame
    /\ annotated_frame = NoAnnotated
    /\ camera_lock = "free"
    /\ global_frame = NoFrame
    /\ global_frame_with_landmarks = NoAnnotated
    /\ last_published = NoFrame
    /\ current_frame = NoFrame
    /\ slouch_detected = FALSE
    /\ last_status = None
    /\ last_status_change_time = 0
    /\ good_posture_time = 0
    /\ slouch_time = 0
    /\ start_time = 0
    /\ after_queue = <<[cb |-> "update_test", due |-> FirstDelay]>>
    /\ inserts = <<>>
    /\ conn_open = TRUE
    /\ ticks_in_flight = 0
    /\ samples = <<>>
    /\ join_calls = 0
    /\ stop_returns = 0
    /\ close_mark = NoMark
    /\ log_text = LogMessage(<<>>, "Posture monitoring started", "")
    /\ preview_active = FALSE
    /\ photo = NoPhoto
    /\ preview_timer = TRUE
    /\ earlier_data = <<>>
    /\ report_windows = <<>>
    /\ later_threads = <<>>

\* the capture thread, the first tick and the preview, with the user free to
\* show and hide the preview; the window stays open, so that the capture
\* thread is never told to stop
NextPreview ==
    \/ CameraOpen \/ CameraLoop \/ CameraRead \/ CameraBackoff \/ CameraPublish
    \/ CameraPublishRelease \/ CameraProcess \/ CameraSave \/ CameraSaveRelease
    \/ UpdateTestDispatch \/ GetPoseStatusLock \/ GetPoseStatusUnlock
    \/ GetPoseStatusAnalyze \/ UpdateTestAccount
    \/ TogglePreview \/ UpdatePreviewDispatch \/ UpdatePreviewLock
    \/ UpdatePreviewRender \/ UpdatePreviewUnlock \/ UpdatePreviewReschedule

SpecPreview == InitPreview /\ [][NextPreview]_vars

\* ---------------------------------------------------------------- ranking
\* the users with rows in posture_log
RankedUsers == {"A", "B", "C"}

\* a number as a fraction: the quotients of generate_report are kept exact
Frac(num, den) == [num |-> num, den |-> den]
FracLess(a, b) == a.num * b.den < b.num * a.den
FracEq(a, b) == a.num * b.den = b.num * a.den

\* f"{x:.2f}": x rounded to hundredths (as a number of hundredths)
Format2(x) == (2 * 100 * x.num + x.den) \div (2 * x.den)

\* SUM(duration) over the rows of log, of status st only when st is not None
RECURSIVE SumDuration(_, _)
SumDuration(log, st) ==
    IF log = <<>> THEN 0
    ELSE (IF st = None \/ log[1].status = st THEN log[1].duration ELSE 0)
         + SumDuration(Tail(log), st)

\* the result of the GROUP BY query: one row (username, good_time, total_time)
\* per user, from the rows earlier sessions left and the rows of this session
\* (a user whose first rows are this session's gets the last group)
UserData ==
    LET good == SumDuration(PostureLog, GoodPosture)
        total == SumDuration(PostureLog, None)
        known == {i \in DOMAIN earlier_data : earlier_data[i].username = username}
    IN  IF PostureLog = <<>> THEN earlier_data
        ELSE IF known = {}
        THEN Append(earlier_data, [username |-> username, good_time |-> good,
                                   total_time |-> total])
        ELSE [i \in DOMAIN earlier_data |->
                 IF i \in known
                 THEN [username |-> username,
                       good_time |-> earlier_data[i].good_time + good,
                       total_time |-> earlier_data[i].total_time + total]
                 ELSE earlier_data[i]]

\* ratio = (good_time / total_time * 100) if total_time > 0 else 0
Ratio(good_time, total_time) ==
    IF total_time > 0 THEN Frac(good_time * 100, total_time) ELSE Frac(0, 1)

\* user_scores before the sort: (user, ratio) per row, in the order of the rows
UserScores(user_data) ==
    [i \in DOMAIN user_data |->
        [user |-> user_data[i].username,
         ratio |-> Ratio(user_data[i].good_time, user_data[i].total_time)]]

\* faulty variant: x goes in front of the scores equal to its own
InsertBeforeTies(sorted, x) ==
    LET before == {i \in DOMAIN sorted : FracLess(x.ratio, sorted[i].ratio)}
        k == Cardinality(before)
    IN  SubSeq(sorted, 1, k) \o <<x>> \o SubSeq(sorted, k + 1, Len(sorted))

\* one step of the stable descending sort: x, which came later in the list than
\* everything in sorted, goes behind every score that is not less than its own
InsertScore(sorted, x) ==
    LET before == {i \in DOMAIN sorted : ~FracLess(sorted[i].ratio, x.ratio)}
        k == Cardinality(before)
    IN  SubSeq(sorted, 1, k) \o <<x>> \o SubSeq(sorted, k + 1, Len(sorted))

\* user_scores.sort(key=lambda x: x[1], reverse=True)
RECURSIVE SortScores(_)
SortScores(scores) ==
    IF scores = <<>> THEN <<>>
    ELSE InsertScore(SortScores(SubSeq(scores, 1, Len(scores) - 1)), scores[Len(scores)])

\* rank is None
NoRank == 0

\* faulty variant: a user without a row is given the last place
RankBehind(scores, user) ==
    LET at == {i \in DOMAIN scores : scores[i].user = user}
    IN  IF at = {} THEN Len(scores) ELSE CHOOSE i \in at : \A j \in at : i <= j

\* the 1-indexed position of the first score of user, None when there is none
Rank(scores, user) ==
    LET at == {i \in DOMAIN scores : scores[i].user = user}
    IN  IF at = {} THEN NoRank ELSE CHOOSE i \in at : \A j \in at : i <= j

\* faulty variant: the share of users ranked strictly behind
PercentageBehind(total_users, rank) == Frac((total_users - rank) * 100, total_users)

\* percentage_beat = ((total_users - rank + 1) / total_users) * 100
PercentageBeat(total_users, rank) == Frac((total_users - rank + 1) * 100, total_users)

\* the lines generate_report logs when it cannot answer
ReportFailures ==
    {"Error generating report", "No data available for report.", "No data for current user."}

\* the calls of generate_report so far: each has either opened a report window
\* or logged one line
ReportRequests ==
    Len(report_windows) + Len(SelectSeq(log_text, LAMBDA l : l.msg \in ReportFailures))

\* the report window's text, with the locals rank, total_users and user_scores
\* it was computed from
ReportWindow(user_scores, rank) ==
    LET total_users == Len(user_scores)
        total_session_time == good_posture_time + slouch_time
        session_ratio == IF total_session_time > 0
                         THEN Frac(good_posture_time * 100, total_session_time)
                         ELSE Frac(0, 1)
    IN  [user |-> username,
         good_posture_time |-> good_posture_time,
         slouch_time |-> slouch_time,
         session_ratio |-> Format2(session_ratio),
         current_ratio |-> Format2(user_scores[rank].ratio),
         percentage_beat |-> Format2(PercentageBeat(total_users, rank)),
         rank |-> rank,
         total_users |-> total_users,
         user_scores |-> user_scores,
         user_data |-> UserData]

\* generate_report, the command of the "Generate Report" button
GenerateReport ==
    /\ main = "idle"
    /\ ReportRequests < MaxReports
    /\ \/ /\ log_text' = LogMessage(log_text, "Error generating report", "")
          /\ UNCHANGED report_windows
       \/ LET user_scores == SortScores(UserScores(UserData))
              rank == Rank(user_scores, username)
          IN  IF UserData = <<>>
              THEN /\ log_text' = LogMessage(log_text, "No data available for report.", "")
                   /\ UNCHANGED report_windows
              ELSE IF rank = NoRank
              THEN /\ log_text' = LogMessage(log_text, "No data for current user.", "")
                   /\ UNCHANGED report_windows
              ELSE /\ report_windows' = Append(report_windows,
                                               ReportWindow(user_scores, rank))
                   /\ UNCHANGED log_text
    /\ UNCHANGED <<later_threads, clock, camVars, cellVars, mainVars, trackerVars, histVars,
                   preview_active, photo, preview_timer, earlier_data>>

\* the (good_time, total_time) sums a user's earlier rows can have
Aggregates == {<<0, 0>>, <<1, 2>>, <<2, 4>>, <<2, 2>>}

\* A with 80 of 100, B with 30 of 100, C with 50 of 100
ExampleData ==
    <<[username |-> "A", good_time |-> 80, total_time |-> 100],
      [username |-> "B", good_time |-> 30, total_time |-> 100],
      [username |-> "C", good_time |-> 50, total_time |-> 100]>>

\* the query results over posture_log as earlier sessions can have left it: at
\* most MaxRows users, one group per user, in any order
EarlierData ==
    {ExampleData} \cup
    UNION {{[i \in 1..n |-> [username |-> f[i][1], good_time |-> f[i][2][1],
                             total_time |-> f[i][2][2]]] :
               f \in {g \in [1..n -> RankedUsers \X Aggregates] :
                         \A i, j \in 1..n : i # j => g[i][1] # g[j][1]}} :
           n \in 0..MaxRows}

\* A session of any ranked user whose first tick is due, over a posture_log
\* that earlier sessions have filled; the capture thread is blocked in its
\* first cap.read(), so that every tick finds no frame.
InitReport ==
    /\ clock = FirstDelay
    /\ main = "idle"
    /\ username \in RankedUsers
    /\ camera_active = TRUE
    /\ webcam_thread = "thread"
    /\ cam_pc = "read"
    /\ cap_open = TRUE
    /\ global_frame = NoFrame
    /\ frame = NoFrame
    /\ annotated_frame = NoAnnotated
    /\ global_frame_with_landmarks = NoAnnotated
    /\ last_published = NoFrame
    /\ camera_lock = "free"
    /\ current_frame = NoFrame
    /\ slouch_detected = FALSE
    /\ last_status = None
    /\ last_status_change_time = 0
    /\ good_posture_time = 0
    /\ slouch_time = 0
    /\ start_time = 0
    /\ after_queue = <<[cb |-> "update_test", due |-> FirstDelay]>>
    /\ inserts = <<>>
    /\ conn_open = TRUE
    /\ ticks_in_flight = 0
    /\ samples = <<>>
    /\ join_calls = 0
    /\ stop_returns = 0
    /\ close_mark = NoMark
    /\ log_text = LogMessage(<<>>, "Posture monitoring started", "")
    /\ preview_active = FALSE
    /\ photo = NoPhoto
    /\ preview_timer = TRUE
    /\ earlier_data \in EarlierData
    /\ report_windows = <<>>
    /\ later_threads = <<>>

NextReport ==
    \/ UpdateTestDispatch \/ GetPoseStatusLock \/ GetPoseStatusUnlock
    \/ UpdateTestAccount \/ Sleep \/ GenerateReport

SpecReport == InitReport /\ [][NextReport]_vars

\* ------------------------------------------------------------------ claims
\* the ticks at which the classified status differs from the tick before
ChangeTicks == {i \in 2..Len(samples) : samples[i].status # samples[i - 1].status}

\* the tick at which the status observed at tick i was entered
RunStart(i) ==
    LET earlier == {j \in ChangeTicks : j <= i}
    IN  IF earlier = {} THEN 1 ELSE CHOOSE j \in earlier : \A k \in earlier : k <= j

\* the insert_into_db calls made by ticks (on_closing's call comes after them)
TickInserts == IF close_mark = NoMark THEN inserts ELSE SubSeq(inserts, 1, close_mark.n)

\* C1: after every cadence tick good_posture_time + slouch_time equals the
\* wall-clock time elapsed since the session started.
C1_AccountingIdentity ==
    (main = "idle" /\ samples # <<>> /\ clock = samples[Len(samples)].t)
        => good_posture_time + slouch_time = clock - start_time

\* C2: a tick hands a record to insert_into_db exactly when the classified
\* status differs from a last_status that is not None; the k-th record carries
\* the status that was left and the time that status was held (from the tick
\* that entered it to the tick that left it).  The first tick writes nothing.
C2_OneRecordPerChange ==
    /\ Len(TickInserts) = Cardinality(ChangeTicks)
    /\ \A i \in ChangeTicks :
          LET k == Cardinality({j \in ChangeTicks : j <= i})
          IN  /\ TickInserts[k].status = samples[i - 1].status
              /\ TickInserts[k].status # samples[i].status
              /\ TickInserts[k].duration = samples[i].t - samples[RunStart(i - 1)].t

C2_Witness ==
    /\ Len(samples) = 3
    /\ samples[1].status = samples[2].status
    /\ samples[2].status # samples[3].status
    /\ Len(inserts) = 1

\* C3: once on_closing has run its flush, exactly one record was added for the
\* open interval (status last_status, duration now - the time it was entered)
\* when last_status is not None and none otherwise; the camera is stopped and
\* the connection closed only after that.
C3_FinalFlush ==
    /\ close_mark # NoMark =>
          IF last_status # None
          THEN /\ Len(inserts) = close_mark.n + 1
               /\ inserts[Len(inserts)].status = last_status
               /\ inserts[Len(inserts)].status = samples[Len(samples)].status
               /\ inserts[Len(inserts)].duration =
                      close_mark.now - samples[RunStart(Len(samples))].t
          ELSE Len(inserts) = close_mark.n /\ inserts = <<>>
    /\ (username # None /\ (join_calls > 0 \/ stop_returns > 0 \/ ~conn_open))
          => close_mark # NoMark

C3_Witness ==
    /\ main = "exited"
    /\ ~conn_open
    /\ Len(samples) = 2
    /\ samples[1].status = samples[2].status
    /\ Len(inserts) = 1
    /\ inserts[1].duration > UpdateInterval

\* the pending update_test timers
PendingTicks == {i \in DOMAIN after_queue : after_queue[i].cb = "update_test"}

\* C4: at most one update_test is in flight, at most one is pending, never one
\* in flight and one pending, and on_closing never runs while a tick is in flight.
C4_TicksNeverOverlap ==
    /\ ticks_in_flight \in {0, 1}
    /\ ticks_in_flight + Cardinality(PendingTicks) <= 1
    /\ ticks_in_flight = 1 <=> main \in {"ut_lock", "ut_locked", "ut_analyze", "ut_account"}
    /\ close_mark # NoMark => ticks_in_flight = 0

C4_Witness ==
    /\ ticks_in_flight = 1
    /\ Len(samples) = 2
    /\ PendingTicks = {}

\* C5: the frame cell is one last-write-wins slot: it always holds the frame of
\* the latest publish (nothing before the first), and the copy a reader takes
\* under the lock is that frame.
C5_LastWriteWins ==
    /\ global_frame = last_published
    /\ main = "ut_locked" => current_frame = last_published

C5_Witness ==
    /\ main = "ut_locked"
    /\ Len(samples) = 1
    /\ samples[1].frame # NoFrame
    /\ current_frame # NoFrame
    /\ current_frame # samples[1].frame

\* C6: when stop_camera has returned the camera device is released.
C6_ReleasedWhenStopReturns == stop_returns > 0 => ~cap_open

\* C7: a stop_camera call made after an earlier one has returned goes straight
\* to its return: camera_active stays False, no join is made, nothing else changes.
C7_StopIdempotent ==
    [][(stop_returns >= 1 /\ main = "fin_stop" /\ main' # main) =>
          /\ main' = "exited"
          /\ ~camera_active /\ ~camera_active'
          /\ join_calls' = join_calls
          /\ UNCHANGED <<webcam_thread, cam_pc, cap_open, cellVars, inserts, conn_open,
                         trackerVars>>]_vars

C7_Witness ==
    /\ main = "exited"
    /\ stop_returns = 2
    /\ join_calls = 1

\* no posture can be computed from frame f
NoPosture(f) == f = NoFrame \/ f.det \in {"none", "raise"}

\* C8: a tick that has no frame, or a frame without landmarks, or a frame whose
\* landmark extraction raises, scores Good Posture; so does every tick of a
\* session in which no frame was ever published.
C8_FailOpen ==
    /\ \A i \in DOMAIN samples : NoPosture(samples[i].frame) => samples[i].status = GoodPosture
    /\ (main = "ut_account" /\ NoPosture(current_frame)) => ~slouch_detected
    /\ last_published = NoFrame => last_status \in {None, GoodPosture}

C8_Witness ==
    /\ Len(samples) = 2
    /\ samples[2].frame = RaisingFrame
    /\ samples[2].status = GoodPosture

\* the three angles of f are within the good-posture thresholds
InRange(f) ==
    /\ f.khs # NaNAngle /\ f.hse # NaNAngle /\ f.sev # NaNAngle
    /\ f.khs >= 75 /\ f.khs <= 105
    /\ f.hse >= 165
    /\ f.sev >= 165

AllPresent(f) == f # NoFrame /\ f.det = "pose" /\ f.miss = "no"

\* C9: with all four landmarks present the tick scores Good Posture exactly when
\* the knee-hip-shoulder angle is in [75, 105] and both other angles are >= 165.
C9_Thresholds ==
    \A i \in DOMAIN samples :
        AllPresent(samples[i].frame) =>
            (samples[i].status = GoodPosture <=> InRange(samples[i].frame))

C9_Witness ==
    /\ Len(samples) = 1
    /\ samples[1].frame = PoseFrame("no", 105, 165, 165)
    /\ samples[1].status = GoodPosture

\* C10 as stated: a missing landmark, a failed extraction or a violated threshold
\* gives Slouch, unless no landmarks are detected at all.
C10_DefaultUnsafe ==
    \A i \in DOMAIN samples :
        LET f == samples[i].frame
        IN  (f # NoFrame /\ f.det # "none"
                /\ (f.det = "raise" \/ f.miss # "no" \/ ~InRange(f)))
            => samples[i].status = SlouchDetected

\* C10 amended: a violated threshold with all four landmarks present gives
\* Slouch; a missing landmark or a failed extraction gives Good Posture, as the
\* case that no landmarks are detected does.
C10_DefaultUnsafeAmended ==
    \A i \in DOMAIN samples :
        LET f == samples[i].frame
        IN  /\ (AllPresent(f) /\ ~InRange(f)) => samples[i].status = SlouchDetected
            /\ (f # NoFrame /\ (f.det \in {"none", "raise"} \/ f.miss # "no"))
                  => samples[i].status = GoodPosture

C10_Witness ==
    /\ Len(samples) = 1
    /\ samples[1].frame = PoseFrame("ear", 90, 180, 164)
    /\ samples[1].status = GoodPosture

\* C11: a cap.read() that returns no frame does not end the capture loop: the
\* thread goes to its warning and backoff, from there back to the loop test,
\* and the frame cells keep what they held (the last published frame stays
\* in global_frame); the loop is left for cap.release() only from its test and
\* only after stop_camera has cleared camera_active.
C11_FailedReadRetries ==
    [][/\ (cam_pc = "read" /\ cam_pc' # "read" /\ frame' = NoFrame) =>
              /\ cam_pc' = "backoff"
              /\ UNCHANGED <<global_frame, global_frame_with_landmarks, last_published>>
       /\ (cam_pc = "backoff" /\ cam_pc' # "backoff") =>
              /\ cam_pc' = "loop"
              /\ global_frame' = last_published
              /\ UNCHANGED <<global_frame, global_frame_with_landmarks, last_published>>
       /\ (cam_pc # "release" /\ cam_pc' = "release") =>
              /\ cam_pc = "loop"
              /\ ~camera_active
              /\ join_calls >= 1]_vars

C11_Witness ==
    /\ cam_pc = "backoff"
    /\ frame = NoFrame
    /\ camera_active
    /\ global_frame # NoFrame
    /\ global_frame = last_published

\* C12: when the device fails to open, capture does not end: the thread does
\* not return and camera_active is not cleared, so that opening can be tried
\* again after a backoff.
C12_OpenFailureRetried ==
    [][(cam_pc = "open" /\ cam_pc' # "open" /\ ~cap_open') =>
          /\ cam_pc' # "done"
          /\ camera_active' = camera_active]_vars

\* the time the code has put into the bucket of status st by tick n: at every
\* tick after the first, the time since the status of the tick before was entered
RECURSIVE Held(_, _)
Held(st, n) ==
    IF n < 2 THEN 0
    ELSE Held(st, n - 1)
         + (IF samples[n - 1].status = st
            THEN samples[n].t - samples[RunStart(n - 1)].t ELSE 0)

\* the insert_into_db calls whose INSERT failed
FailedInserts == SelectSeq(inserts, LAMBDA r : ~r.ok)

\* C13: whether or not the INSERT of a status change succeeds, after every
\* tick last_status is the status just classified, last_status_change_time is
\* the time of the tick that entered it, both accumulators are what the ticks
\* alone determine, and exactly one next tick is pending; every failed INSERT
\* has left one "DB insert error" line in the log.
C13_FailedWriteNotFatal ==
    /\ samples # <<>> =>
          /\ last_status = samples[Len(samples)].status
          /\ last_status_change_time = samples[RunStart(Len(samples))].t
    /\ good_posture_time = Held(GoodPosture, Len(samples))
    /\ slouch_time = Held(SlouchDetected, Len(samples))
    /\ (main = "idle" /\ samples # <<>> /\ clock = samples[Len(samples)].t)
          => Cardinality(PendingTicks) = 1
    /\ Len(SelectSeq(log_text, LAMBDA l : l.msg = "DB insert error")) = Len(FailedInserts)
    /\ Len(SelectSeq(log_text, LAMBDA l : l.msg = "Record inserted")) = Len(PostureLog)

C13_Witness ==
    /\ main = "idle"
    /\ Len(samples) = 3
    /\ samples[1].status # samples[2].status
    /\ samples[2].status = samples[3].status
    /\ Len(inserts) = 1
    /\ ~inserts[1].ok
    /\ PostureLog = <<>>
    /\ PendingTicks # {}

\* C14: once the capture thread has ended, by whatever path, the camera device
\* is released.
C14_ReleasedOnEveryExit == cam_pc \in {"done", "crashed"} => ~cap_open

\* C15: every report shows the percentile ((n - r + 1) / n) * 100 of the rank r
\* among the n ranked users, to two decimals: 100.00 at rank 1 and 100 / n at
\* rank n; over the rows A 80/100, B 30/100, C 50/100 the order is A, C, B,
\* A is shown 100.00 and B 33.33.
C15_Percentile ==
    \A w \in DOMAIN report_windows :
        LET r == report_windows[w].rank
            n == report_windows[w].total_users
            shown == report_windows[w].percentage_beat
        IN  /\ r \in 1..n
            /\ shown = ((n - r + 1) * 10000 * 2 + n) \div (2 * n)
            /\ r = 1 => shown = 10000
            /\ r = n => shown = (10000 * 2 + n) \div (2 * n)
            /\ earlier_data = ExampleData =>
                  /\ [i \in 1..n |-> report_windows[w].user_scores[i].user] = <<"A", "C", "B">>
                  /\ username = "A" => shown = 10000
                  /\ username = "B" => shown = 3333
                  /\ username = "C" => shown = 6667

C15_Witness ==
    /\ earlier_data = ExampleData
    /\ username = "B"
    /\ Len(report_windows) = 1
    /\ report_windows[1].rank = 3
    /\ report_windows[1].percentage_beat = 3333
    /\ Len(samples) = 2

\* row a's share of good time (0 when its total is 0) is greater than row b's
Better(a, b) ==
    LET an == IF a.total_time > 0 THEN a.good_time ELSE 0
        ad == IF a.total_time > 0 THEN a.total_time ELSE 1
        bn == IF b.total_time > 0 THEN b.good_time ELSE 0
        bd == IF b.total_time > 0 THEN b.total_time ELSE 1
    IN  an * bd > bn * ad

\* C16: the ranked list of a report holds every user of the query result once,
\* with ratio good_time / total_time (0 when total_time is 0), in descending
\* order of that ratio; users with equal ratios stand in the order of their
\* rows in the query result; the rank is the 1-indexed place of the current
\* user in the list, behind every user with a greater ratio.
C16_RankingOrder ==
    \A w \in DOMAIN report_windows :
        LET s == report_windows[w].user_scores
            d == report_windows[w].user_data
            r == report_windows[w].rank
            n == Len(d)
            row(j) == CHOOSE i \in 1..n : d[i].username = s[j].user
        IN  /\ Len(s) = n
            /\ \A i \in 1..n : \E j \in 1..n : s[j].user = d[i].username
            /\ \A j \in 1..n :
                  IF d[row(j)].total_time > 0
                  THEN s[j].ratio.num * d[row(j)].total_time
                          = 100 * d[row(j)].good_time * s[j].ratio.den
                  ELSE s[j].ratio.num = 0
            /\ \A i, j \in 1..n : i < j =>
                  /\ ~Better(d[row(j)], d[row(i)])
                  /\ ~Better(d[row(i)], d[row(j)]) => row(i) < row(j)
            /\ r \in 1..n
            /\ s[r].user = report_windows[w].user
            /\ report_windows[w].user = username
            /\ \A j \in 1..n : Better(d[row(j)], d[row(r)]) => j < r

C16_Witness ==
    /\ earlier_data = <<[username |-> "B", good_time |-> 1, total_time |-> 2],
                        [username |-> "A", good_time |-> 2, total_time |-> 4],
                        [username |-> "C", good_time |-> 2, total_time |-> 2]>>
    /\ username = "A"
    /\ Len(report_windows) = 1
    /\ report_windows[1].rank = 3
    /\ report_windows[1].user_scores[2].user = "B"

\* C17: a call of generate_report changes neither the tracker state nor the
\* pending timers nor the datastore session, and leaves the event loop idle.
\* When the query result is empty or has no row of the current user, no report
\* window is opened.  A call that opens no window logs exactly one line, which
\* names its cause: "Error generating report" for a failed query, "No data
\* available for report." for an empty result, "No data for current user." for
\* a result without the user's row.
C17_UnanswerableReport ==
    [][ReportRequests' # ReportRequests =>
          LET absent == \A i \in DOMAIN UserData : UserData[i].username # username
              line == log_text'[Len(log_text')].msg
          IN  /\ UNCHANGED <<trackerVars, after_queue, ticks_in_flight, main, inserts,
                             conn_open, camVars, cellVars, clock>>
              /\ main' = "idle"
              /\ absent => report_windows' = report_windows
              /\ report_windows' = report_windows =>
                    /\ Len(log_text') = Len(log_text) + 1
                    /\ SubSeq(log_text', 1, Len(log_text)) = log_text
                    /\ line \in ReportFailures
                    /\ line = "No data available for report." => UserData = <<>>
                    /\ line = "No data for current user." => (UserData # <<>> /\ absent)
                    /\ absent \/ line = "Error generating report"
              /\ report_windows' # report_windows => log_text' = log_text]_vars

C17_Witness ==
    /\ Len(earlier_data) = 2
    /\ \A i \in DOMAIN earlier_data : earlier_data[i].username # username
    /\ log_text[Len(log_text)].msg = "No data for current user."
    /\ report_windows = <<>>
    /\ Len(samples) = 2
    /\ good_posture_time = UpdateInterval
    /\ PendingTicks # {}

\* C18: no thread works on a frame while it holds camera_lock: not the preview
\* (resizing, colour conversion, encoding, canvas update), not the tick
\* (landmark detection), not the capture thread (detection, annotation).
C18_MinimalCriticalSections ==
    /\ main = "up_render" => camera_lock # "main"
    /\ main = "ut_analyze" => camera_lock # "main"
    /\ cam_pc = "process" => camera_lock # "camera"

\* the thread is inside a with camera_lock block
CameraInLock == cam_pc \in {"published", "saved"}
MainInLock == main \in {"ut_locked", "up_render", "up_unlock"}

\* C19: camera_lock is held by exactly the thread that is inside one of its
\* with blocks, and the two threads are never inside at once; the frame cells
\* are written only by a step that enters a with block of the capture thread,
\* the tick reads global_frame only in the step that enters its with block, and
\* the preview reads global_frame_with_landmarks only with the lock held; what
\* the tick classifies is the copy it made there, whatever is published after.
C19_CellsUnderLock ==
    /\ [](/\ ~(CameraInLock /\ MainInLock)
          /\ camera_lock = "camera" <=> CameraInLock
          /\ camera_lock = "main" <=> MainInLock
          /\ main = "ut_account" /\ current_frame # NoFrame
                => slouch_detected = AnalyzePosture(current_frame))
    /\ [][/\ (global_frame' # global_frame
                 \/ global_frame_with_landmarks' # global_frame_with_landmarks)
               => (camera_lock = "free" /\ camera_lock' = "camera")
          /\ current_frame' # current_frame
               => (main = "ut_lock" /\ camera_lock = "free" /\ camera_lock' = "main"
                   /\ current_frame' = global_frame)
          /\ (main = "ut_lock" /\ main' # main) => camera_lock' = "main"
          /\ photo' # photo
               => (camera_lock = "main" /\ camera_lock' = "main"
                   /\ photo' = Render(global_frame_with_landmarks))
          /\ (main = "ut_analyze" /\ main' # main) => UNCHANGED current_frame]_vars

\* the tick analyses its copy while the cell already holds a later frame, and
\* the preview has drawn a frame under the lock
C19_Witness ==
    /\ main = "ut_analyze"
    /\ camera_lock = "camera"
    /\ cam_pc = "published"
    /\ global_frame # current_frame
    /\ photo # NoPhoto

\* C20: a tick adds now - last_status_change_time to the bucket of the status
\* held before it (good_posture_time for Good Posture, slouch_time for Slouch
\* Detected) and leaves the other bucket alone; a tick with last_status None
\* changes neither; no step makes a bucket smaller.
C20_BucketOfPriorStatus ==
    [][/\ samples' # samples =>
              LET elapsed == clock' - last_status_change_time
              IN  /\ elapsed >= 0
                  /\ IF last_status = None
                     THEN UNCHANGED <<good_posture_time, slouch_time>>
                     ELSE IF last_status = GoodPosture
                     THEN /\ good_posture_time' = good_posture_time + elapsed
                          /\ UNCHANGED slouch_time
                     ELSE /\ last_status = SlouchDetected
                          /\ slouch_time' = slouch_time + elapsed
                          /\ UNCHANGED good_posture_time
       /\ good_posture_time' >= good_posture_time
       /\ slouch_time' >= slouch_time]_vars

C20_Witness ==
    /\ Len(samples) = 3
    /\ samples[1].status = GoodPosture
    /\ samples[2].status = SlouchDetected
    /\ samples[3].status = GoodPosture
    /\ good_posture_time > 0
    /\ slouch_time > 0
    /\ good_posture_time + slouch_time = samples[3].t - samples[1].t

\* the "Status changed to" lines of a log
StatusChangeLines(log) == SelectSeq(log, LAMBDA l : l.msg = "Status changed to")

\* C21: a tick whose status equals last_status leaves last_status and
\* last_status_change_time as they are, calls insert_into_db not at all and
\* logs nothing; a tick whose status differs (the first tick included) sets
\* last_status to it and last_status_change_time to now and logs one "Status
\* changed to" line; no other step of a running session moves
\* last_status_change_time.
C21_UnchangedStatusTick ==
    [][/\ samples' # samples =>
              LET cur == samples'[Len(samples')].status
              IN  IF cur = last_status
                  THEN UNCHANGED <<last_status, last_status_change_time, inserts, log_text>>
                  ELSE /\ last_status' = cur
                       /\ last_status_change_time' = clock'
                       /\ Len(StatusChangeLines(log_text'))
                             = Len(StatusChangeLines(log_text)) + 1
                       /\ log_text'[Len(log_text) + 1] = [msg |-> "Status changed to", arg |-> cur]
       /\ (main # "login" /\ last_status_change_time' # last_status_change_time) =>
              /\ samples' # samples
              /\ samples'[Len(samples')].status # last_status
       /\ (main # "login" /\ last_status' # last_status) => samples' # samples]_vars

C21_Witness ==
    /\ main = "idle"
    /\ Len(samples) = 3
    /\ samples[1].status # samples[2].status
    /\ samples[2].status = samples[3].status
    /\ last_status_change_time = samples[2].t
    /\ Len(inserts) = 1
    /\ Len(StatusChangeLines(log_text)) = 2

\* C22: while the session is open and the event loop is idle, an update_test
\* timer is pending: every tick that was run has armed the next one.
C22_TickAlwaysRescheduled ==
    (main = "idle" /\ close_mark = NoMark) => PendingTicks # {}

\* C23: every record handed to insert_into_db carries as its timestamp the
\* time at which its status was entered: for the record of a status change the
\* time of the tick that entered the status left, for the closing record the
\* time of the tick that entered the last status.
C23_TimestampIsEntry ==
    /\ \A i \in ChangeTicks :
          LET k == Cardinality({j \in ChangeTicks : j <= i})
          IN  k <= Len(TickInserts) =>
                 TickInserts[k].timestamp = Strftime(samples[RunStart(i - 1)].t)
    /\ (close_mark # NoMark /\ Len(inserts) > close_mark.n) =>
          inserts[Len(inserts)].timestamp = Strftime(samples[RunStart(Len(samples))].t)

\* the capture threads that have been started and have not ended
AliveThreads ==
    (IF cam_pc \in {"unstarted", "done", "crashed"} THEN {} ELSE {0})
    \cup {i \in DOMAIN later_threads : later_threads[i].pc \notin {"done", "crashed"}}

\* C24: whatever start_camera and stop_camera calls were made, at most one
\* capture thread is alive.
C24_OneCaptureLoop == Cardinality(AliveThreads) <= 1

\* the tick at which the k-th status change was seen
ChangeTick(k) == CHOOSE i \in ChangeTicks : Cardinality({j \in ChangeTicks : j <= i}) = k

\* the instant up to which the first k records account: the k-th status
\* change, or the close for the closing record
CoveredUpTo(k) ==
    IF k <= Len(TickInserts) THEN samples[ChangeTick(k)].t ELSE close_mark.now

\* C25: in a session whose INSERTs all succeed, the first k rows of posture_log
\* together last exactly from the first tick to the k-th status change (to the
\* close, for the closing row), for every k: the rows follow one another
\* without gap or overlap, and the rows of a closed session sum to the time
\* from the first tick to the close.  Consecutive rows carry different statuses.
C25_RecordsCoverSession ==
    (\A k \in DOMAIN inserts : inserts[k].ok) =>
        /\ PostureLog = inserts
        /\ \A k \in DOMAIN PostureLog :
              /\ PostureLog[k].duration >= 0
              /\ SumDuration(SubSeq(PostureLog, 1, k), None) = CoveredUpTo(k) - samples[1].t
              /\ k > 1 => PostureLog[k].status # PostureLog[k - 1].status
        /\ (close_mark # NoMark /\ samples # <<>>) =>
              /\ Len(PostureLog) = Cardinality(ChangeTicks) + 1
              /\ SumDuration(PostureLog, None) = close_mark.now - samples[1].t

C25_Witness ==
    /\ main = "exited"
    /\ Len(samples) = 3
    /\ Len(PostureLog) = 3
    /\ PostureLog[1].status = GoodPosture
    /\ PostureLog[2].status = SlouchDetected
    /\ PostureLog[3].status = GoodPosture
    /\ close_mark.now > samples[3].t
    /\ PostureLog[3].duration > 0
====
